---------------------------- MODULE Spec2Model ----------------------------
(***************************************************************************)
(* Model of the Unity-Skills verification harness (test_all_skills.py) and *)
(* of the plain client (unity-skills/scripts/unity_skills.py).             *)
(*                                                                         *)
(* Text is a TLA+ string; a character is a string of length 1.  A Python   *)
(* value (a parsed JSON body, a synthesized parameter, an outcome message) *)
(* is a record of one shape, tagged by its Python type.                    *)
(***************************************************************************)
EXTENDS Integers, Sequences, FiniteSets, TLC

VARIABLES
    listing,      \* the "skills" array GET /skills answers with
    skills_info,  \* main: the catalog, a sequence of descriptors (dict order)
    pc,           \* main: position in main()
    submitted,    \* main: how many catalog entries were handed to the executor
    queue,        \* executor: work queue, catalog indices in submission order
    running,      \* executor: indices whose test_skill is between POST and answer
    sent,         \* per index: the sequence of POST bodies sent for it
    answer,       \* per index: what requests.post did for it (NoAnswer before)
    future,       \* per index: the future's result (NoOutcome while not done)
    pending,      \* as_completed: indices not yet yielded
    results,      \* main: the list `results`
    progress,     \* stdout: the names of the progress lines, in print order
    report,       \* main: the summary counts and the rendered table
    fn,           \* a function applied on its own: [name, done]
    fn_in,        \* its input
    fn_out        \* its result, once fn.done

vars == <<listing, skills_info, pc, submitted, queue, running, sent, answer,
          future, pending, results, progress, report, fn, fn_in, fn_out>>

---------------------------------------------------------------------------
(* Text helpers.                                                           *)

Min(a, b) == IF a <= b THEN a ELSE b

\* s[:n] of a Python str
Take(s, n) == SubSeq(s, 1, Min(n, Len(s)))

\* `sub in s` of two Python strs
Contains(sub, s) ==
    \E i \in 1..(Len(s) - Len(sub) + 1) : SubSeq(s, i, i + Len(sub) - 1) = sub

StartsWith(s, p) == Len(p) <= Len(s) /\ SubSeq(s, 1, Len(p)) = p

RECURSIVE Rep(_, _)
\* c * n
Rep(c, n) == IF n <= 0 THEN "" ELSE c \o Rep(c, n - 1)

Upper == "ABCDEFGHIJKLMNOPQRSTUVWXYZ"
Lowers == "abcdefghijklmnopqrstuvwxyz"

LowerChar(c) ==
    IF \E i \in 1..Len(Upper) : SubSeq(Upper, i, i) = c
    THEN LET i == CHOOSE j \in 1..Len(Upper) : SubSeq(Upper, j, j) = c
         IN  SubSeq(Lowers, i, i)
    ELSE c

RECURSIVE Lower(_)
\* str.lower()
Lower(s) == IF s = "" THEN "" ELSE LowerChar(Head(s)) \o Lower(Tail(s))

\* The characters the model's names use, in code-point order.
CodeOrder == "./0123456789:ABCDEFGHIJKLMNOPQRSTUVWXYZ_abcdefghijklmnopqrstuvwxyz"

Ord(c) == CHOOSE i \in 1..Len(CodeOrder) : SubSeq(CodeOrder, i, i) = c

RECURSIVE StrLess(_, _)
\* a < b of two Python strs (code-point lexicographic)
StrLess(a, b) ==
    IF b = "" THEN FALSE
    ELSE IF a = "" THEN TRUE
    ELSE IF Head(a) = Head(b) THEN StrLess(Tail(a), Tail(b))
    ELSE Ord(Head(a)) < Ord(Head(b))

Digits == "0123456789"

RECURSIVE NatStr(_)
NatStr(n) ==
    IF n < 10 THEN SubSeq(Digits, n + 1, n + 1)
    ELSE NatStr(n \div 10) \o SubSeq(Digits, (n % 10) + 1, (n % 10) + 1)

\* str(n) of a Python int
IntStr(n) == IF n < 0 THEN "-" \o NatStr(0 - n) ELSE NatStr(n)

---------------------------------------------------------------------------
(* Python values.                                                          *)

PyVal(t, b, n, s, ks, vs) == [t |-> t, b |-> b, n |-> n, s |-> s, ks |-> ks, vs |-> vs]

PyNone     == PyVal("NoneType", FALSE, 0, "", <<>>, <<>>)
PyBool(b)  == PyVal("bool", b, 0, "", <<>>, <<>>)
PyInt(n)   == PyVal("int", FALSE, n, "", <<>>, <<>>)
\* the float n.0
PyFloat(n) == PyVal("float", FALSE, n, "", <<>>, <<>>)
PyStr(s)   == PyVal("str", FALSE, 0, s, <<>>, <<>>)
PyList(vs) == PyVal("list", FALSE, 0, "", <<>>, vs)
\* a dict with keys ks (strs, insertion order) and values vs
PyDict(ks, vs) == PyVal("dict", FALSE, 0, "", ks, vs)

HasKey(d, k) == \E i \in 1..Len(d.ks) : d.ks[i] = k
Lookup(d, k) == d.vs[CHOOSE i \in 1..Len(d.ks) : d.ks[i] = k]

RECURSIVE Join(_, _)
Join(parts, sep) ==
    IF parts = <<>> THEN ""
    ELSE IF Len(parts) = 1 THEN parts[1]
    ELSE parts[1] \o sep \o Join(Tail(parts), sep)

RECURSIVE Repr(_)
\* repr(v); the strs of the model hold no quote and no backslash
Repr(v) ==
    CASE v.t = "NoneType" -> "None"
      [] v.t = "bool"  -> IF v.b THEN "True" ELSE "False"
      [] v.t = "int"   -> IntStr(v.n)
      [] v.t = "float" -> IntStr(v.n) \o ".0"
      [] v.t = "str"   -> "'" \o v.s \o "'"
      [] v.t = "list"  -> "[" \o Join([i \in 1..Len(v.vs) |-> Repr(v.vs[i])], ", ") \o "]"
      [] v.t = "dict"  ->
            "{" \o Join([i \in 1..Len(v.ks) |->
                            "'" \o v.ks[i] \o "': " \o Repr(v.vs[i])], ", ") \o "}"

\* str(v)
Str(v) == IF v.t = "str" THEN v.s ELSE Repr(v)

RECURSIVE JsonText(_)
\* the JSON text a server sends for v
JsonText(v) ==
    CASE v.t = "NoneType" -> "null"
      [] v.t = "bool"  -> IF v.b THEN "true" ELSE "false"
      [] v.t = "int"   -> IntStr(v.n)
      [] v.t = "float" -> IntStr(v.n) \o ".0"
      [] v.t = "str"   -> "\"" \o v.s \o "\""
      [] v.t = "list"  -> "[" \o Join([i \in 1..Len(v.vs) |-> JsonText(v.vs[i])], ",") \o "]"
      [] v.t = "dict"  ->
            "{" \o Join([i \in 1..Len(v.ks) |->
                            "\"" \o v.ks[i] \o "\":" \o JsonText(v.vs[i])], ",") \o "}"


\* bool(v)
Truthy(v) ==
    CASE v.t = "NoneType" -> FALSE
      [] v.t = "bool"  -> v.b
      [] v.t = "int"   -> v.n # 0
      [] v.t = "float" -> v.n # 0
      [] v.t = "str"   -> v.s # ""
      [] v.t = "list"  -> v.vs # <<>>
      [] v.t = "dict"  -> v.ks # <<>>

\* d[k] = v of a dict: a new key goes last, a known key keeps its place
DictSet(d, k, v) ==
    IF HasKey(d, k)
    THEN PyDict(d.ks, [i \in 1..Len(d.vs) |-> IF d.ks[i] = k THEN v ELSE d.vs[i]])
    ELSE PyDict(Append(d.ks, k), Append(d.vs, v))

\* d.get(k, dflt) of a dict
DictGet(d, k, dflt) == IF HasKey(d, k) THEN Lookup(d, k) ELSE dflt

(* What evaluating a piece of Python gives: a value, or a raised exception  *)
(* (its class and its str()).                                               *)
Ok(v)            == [exc |-> "", text |-> "", val |-> v]
Raise(cls, text) == [exc |-> cls, text |-> text, val |-> PyNone]

---------------------------------------------------------------------------
(* test_all_skills.py: parameter synthesis.                                *)

SafeNames ==
    << "asset_delete", "asset_delete_batch", "asset_move", "asset_move_batch",
       "asset_duplicate", "asset_import", "asset_import_batch",
       "cleaner_delete_assets", "script_delete", "shader_delete",
       "gameobject_delete", "gameobject_delete_batch", "prefab_unpack" >>

SafeValues ==
    << PyDict(<<"assetPath">>, <<PyStr("Assets/__nonexistent_test_file__.txt")>>),
       PyDict(<<"items">>, <<PyStr("[]")>>),
       PyDict(<<"sourcePath", "destinationPath">>,
              <<PyStr("Assets/__nonexistent__.txt"), PyStr("Assets/__nonexistent2__.txt")>>),
       PyDict(<<"items">>, <<PyStr("[]")>>),
       PyDict(<<"assetPath">>, <<PyStr("Assets/__nonexistent_test_file__.txt")>>),
       PyDict(<<"sourcePath", "destinationPath">>,
              <<PyStr("C:/__nonexistent__.txt"), PyStr("Assets/__test__.txt")>>),
       PyDict(<<"items">>, <<PyStr("[]")>>),
       PyDict(<<"paths">>, <<PyList(<<>>)>>),
       PyDict(<<"scriptPath">>, <<PyStr("Assets/__nonexistent__.cs")>>),
       PyDict(<<"shaderPath">>, <<PyStr("Assets/__nonexistent__.shader")>>),
       PyDict(<<"name">>, <<PyStr("__NonExistentObject__")>>),
       PyDict(<<"items">>, <<PyStr("[]")>>),
       PyDict(<<"name">>, <<PyStr("__NonExistentPrefab__")>>) >>

\* the table SAFE_PARAMS
SAFE_PARAMS == PyDict(SafeNames, SafeValues)

\* the heuristics with filter/search looked for before the others
StringPlaceholder_FilterFirst(name) ==
    LET low == Lower(name) IN
    IF Contains("filter", low) \/ Contains("search", low) THEN "*"
    ELSE IF Contains("assetpath", low) THEN "Assets/__nonexistent_test__.asset"
    ELSE IF Contains("path", low) \/ Contains("folder", low) THEN "Assets"
    ELSE IF Contains("name", low) THEN "TestObject"
    ELSE IF Contains("items", low) THEN "[]"
    ELSE "test"

\* the placeholder of a required str parameter, by its name
StringPlaceholder(name) ==
    LET low == Lower(name) IN
    IF Contains("assetpath", low) THEN "Assets/__nonexistent_test__.asset"
    ELSE IF Contains("path", low) \/ Contains("folder", low) THEN "Assets"
    ELSE IF Contains("name", low) THEN "TestObject"
    ELSE IF Contains("items", low) THEN "[]"
    ELSE IF Contains("filter", low) \/ Contains("search", low) THEN "*"
    ELSE "test"

\* the round taking a default only when it is truthy (`if default and ...`)
ParamStep_TruthyDefault(params, p) ==
    IF p.t # "dict" THEN
        Raise("TypeError",
              CASE p.t = "str"  -> "string indices must be integers"
                [] p.t = "list" -> "list indices must be integers or slices, not str"
                [] OTHER -> "'" \o p.t \o "' object is not subscriptable")
    ELSE IF ~HasKey(p, "name") THEN Raise("KeyError", "'name'")
    ELSE IF ~HasKey(p, "type") THEN Raise("KeyError", "'type'")
    ELSE
        LET name     == Lookup(p, "name")
            ptype    == Lookup(p, "type")
            default  == DictGet(p, "defaultValue", PyNone)
            required == DictGet(p, "required", PyBool(FALSE))
        IN
        IF name.t # "str" THEN
            \* no catalog of the model names a parameter by anything but a str
            Raise("AttributeError", "'" \o name.t \o "' object has no attribute 'lower'")
        ELSE IF Truthy(default) /\ default # PyStr("null") THEN
            Ok(DictSet(params, name.s, default))
        ELSE IF Truthy(required) THEN
            CASE ptype = PyStr("string")  ->
                    Ok(DictSet(params, name.s, PyStr(StringPlaceholder(name.s))))
              [] ptype = PyStr("integer") -> Ok(DictSet(params, name.s, PyInt(0)))
              [] ptype = PyStr("number")  -> Ok(DictSet(params, name.s, PyFloat(0)))
              [] ptype = PyStr("boolean") -> Ok(DictSet(params, name.s, PyBool(FALSE)))
              [] ptype = PyStr("array")   -> Ok(DictSet(params, name.s, PyList(<<>>)))
              [] ptype = PyStr("object")  -> Ok(DictSet(params, name.s, PyDict(<<>>, <<>>)))
              [] OTHER -> Ok(params)
        ELSE Ok(params)

\* one round of the loop over the declared parameters: params after p
ParamStep(params, p) ==
    IF p.t # "dict" THEN
        Raise("TypeError",
              CASE p.t = "str"  -> "string indices must be integers"
                [] p.t = "list" -> "list indices must be integers or slices, not str"
                [] OTHER -> "'" \o p.t \o "' object is not subscriptable")
    ELSE IF ~HasKey(p, "name") THEN Raise("KeyError", "'name'")
    ELSE IF ~HasKey(p, "type") THEN Raise("KeyError", "'type'")
    ELSE
        LET name     == Lookup(p, "name")
            ptype    == Lookup(p, "type")
            default  == DictGet(p, "defaultValue", PyNone)
            required == DictGet(p, "required", PyBool(FALSE))
        IN
        IF name.t # "str" THEN
            \* no catalog of the model names a parameter by anything but a str
            Raise("AttributeError", "'" \o name.t \o "' object has no attribute 'lower'")
        ELSE IF default.t # "NoneType" /\ default # PyStr("null") THEN
            Ok(DictSet(params, name.s, default))
        ELSE IF Truthy(required) THEN
            CASE ptype = PyStr("string")  ->
                    Ok(DictSet(params, name.s, PyStr(StringPlaceholder(name.s))))
              [] ptype = PyStr("integer") -> Ok(DictSet(params, name.s, PyInt(0)))
              [] ptype = PyStr("number")  -> Ok(DictSet(params, name.s, PyFloat(0)))
              [] ptype = PyStr("boolean") -> Ok(DictSet(params, name.s, PyBool(FALSE)))
              [] ptype = PyStr("array")   -> Ok(DictSet(params, name.s, PyList(<<>>)))
              [] ptype = PyStr("object")  -> Ok(DictSet(params, name.s, PyDict(<<>>, <<>>)))
              [] OTHER -> Ok(params)
        ELSE Ok(params)

RECURSIVE ParamLoop(_, _)
\* the loop `for p in ...` from params on, over the descriptors ps
ParamLoop(params, ps) ==
    IF ps = <<>> THEN Ok(params)
    ELSE LET r == ParamStep(params, Head(ps)) IN
         IF r.exc # "" THEN r ELSE ParamLoop(r.val, Tail(ps))

\* generate_test_params looking at the override table only for an operation
\* that declares no parameter
generate_test_params_SchemaFirst(skill_name, skill_info) ==
    LET ps == IF skill_info.t = "dict"
              THEN DictGet(skill_info, "parameters", PyList(<<>>)) ELSE PyList(<<>>)
    IN
    IF HasKey(SAFE_PARAMS, skill_name) /\ ~(ps.t = "list" /\ ps.vs # <<>>)
    THEN Ok(Lookup(SAFE_PARAMS, skill_name))
    ELSE IF ps.t = "list" THEN ParamLoop(PyDict(<<>>, <<>>), ps.vs)
    ELSE Ok(PyDict(<<>>, <<>>))

\* generate_test_params(skill_name, skill_info): the parameter object, or a raise
generate_test_params(skill_name, skill_info) ==
    IF HasKey(SAFE_PARAMS, skill_name) THEN Ok(Lookup(SAFE_PARAMS, skill_name))
    ELSE IF skill_info.t # "dict" THEN
        Raise("AttributeError", "'" \o skill_info.t \o "' object has no attribute 'get'")
    ELSE
        LET ps == DictGet(skill_info, "parameters", PyList(<<>>)) IN
        IF ps.t = "list" THEN ParamLoop(PyDict(<<>>, <<>>), ps.vs)
        ELSE IF ps.t \in {"str", "dict"} /\ ~Truthy(ps) THEN Ok(PyDict(<<>>, <<>>))
        ELSE IF ps.t \in {"str", "dict"} THEN
            Raise("TypeError", "string indices must be integers")
        ELSE Raise("TypeError", "'" \o ps.t \o "' object is not iterable")

---------------------------------------------------------------------------
(* What requests.post does: it raises (kind "exc": class exc, str() text)  *)
(* or it returns a response (kind "http": status, body text, and, when the *)
(* body is JSON, the value data that resp.json() parses it to).            *)

PostRaises(cls, text) ==
    [kind |-> "exc", exc |-> cls, text |-> text, status |-> 0, body |-> "",
     json |-> FALSE, data |-> PyNone]
\* a response whose body is the JSON text of v
HttpJson(status, v) ==
    [kind |-> "http", exc |-> "", text |-> "", status |-> status,
     body |-> JsonText(v), json |-> TRUE, data |-> v]
\* a response whose body is no JSON text
HttpText(status, body) ==
    [kind |-> "http", exc |-> "", text |-> "", status |-> status,
     body |-> body, json |-> FALSE, data |-> PyNone]

\* the classes of requests.exceptions and of Python that cls derives from
Bases(cls) ==
    CASE cls = "ConnectTimeout"  ->
            {"ConnectTimeout", "ConnectionError", "Timeout", "RequestException", "Exception"}
      [] cls = "ReadTimeout"     -> {"ReadTimeout", "Timeout", "RequestException", "Exception"}
      [] cls = "ConnectionError" -> {"ConnectionError", "RequestException", "Exception"}
      [] cls = "TooManyRedirects" -> {"TooManyRedirects", "RequestException", "Exception"}
      [] cls = "JSONDecodeError" -> {"JSONDecodeError", "RequestException", "Exception"}
      [] OTHER -> {cls, "Exception"}

\* isinstance(e, base) for an exception e of class cls: what `except base` tests
IsInstance(cls, base) == base \in Bases(cls)

\* resp.json()
RespJson(resp) ==
    IF resp.json THEN Ok(resp.data)
    ELSE Raise("JSONDecodeError", "Expecting value: line 1 column 1 (char 0)")

\* `key in data`
PyIn(key, data) ==
    CASE data.t = "dict" -> Ok(PyBool(HasKey(data, key)))
      [] data.t = "list" -> Ok(PyBool(\E i \in 1..Len(data.vs) : data.vs[i] = PyStr(key)))
      [] data.t = "str"  -> Ok(PyBool(Contains(key, data.s)))
      [] OTHER -> Raise("TypeError", "argument of type '" \o data.t \o "' is not iterable")

\* data.get(key, dflt)
PyGet(data, key, dflt) ==
    IF data.t = "dict" THEN Ok(DictGet(data, key, dflt))
    ELSE Raise("AttributeError", "'" \o data.t \o "' object has no attribute 'get'")

\* data[key] for a str key
PyItem(data, key) ==
    CASE data.t = "dict" ->
            IF HasKey(data, key) THEN Ok(Lookup(data, key))
            ELSE Raise("KeyError", "'" \o key \o "'")
      [] data.t = "list" -> Raise("TypeError", "list indices must be integers or slices, not str")
      [] data.t = "str"  -> Raise("TypeError", "string indices must be integers")
      [] OTHER -> Raise("TypeError", "'" \o data.t \o "' object is not subscriptable")

\* v[:n]
PySlice(v, n) ==
    CASE v.t = "str"  -> Ok(PyStr(Take(v.s, n)))
      [] v.t = "list" -> Ok(PyList(SubSeq(v.vs, 1, Min(n, Len(v.vs)))))
      [] v.t = "dict" -> Raise("TypeError", "unhashable type: 'slice'")
      [] OTHER -> Raise("TypeError", "'" \o v.t \o "' object is not subscriptable")

\* v == False
EqFalse(v) ==
    \/ v.t = "bool" /\ ~v.b
    \/ v.t \in {"int", "float"} /\ v.n = 0

---------------------------------------------------------------------------
(* test_all_skills.py: test_skill.                                         *)

Outcome(name, status, msg) == [name |-> name, status |-> status, msg |-> msg]
Returns(o) == [exc |-> "", text |-> "", out |-> o]
Throws(r)  == [exc |-> r.exc, text |-> r.text, out |-> Outcome("", "", PyNone)]

\* the branch `if resp.status_code == 200:` on the parsed body data
Status200(skill_name, data) ==
    LET hasError == PyIn("error", data) IN
    IF hasError.exc # "" THEN Throws(hasError)
    ELSE IF hasError.val.b THEN
        LET e == PyGet(data, "error", PyStr("")) IN
        IF e.exc # "" THEN Throws(e)
        ELSE LET m == PySlice(e.val, 80) IN
             IF m.exc # "" THEN Throws(m)
             ELSE Returns(Outcome(skill_name, "WARN", m.val))
    ELSE
        LET hasSuccess == PyIn("success", data) IN
        IF hasSuccess.exc # "" THEN Throws(hasSuccess)
        ELSE IF ~hasSuccess.val.b THEN Returns(Outcome(skill_name, "PASS", PyStr("OK")))
        ELSE LET sv == PyItem(data, "success") IN
             IF sv.exc # "" THEN Throws(sv)
             ELSE IF EqFalse(sv.val) THEN
                 LET inner == PyGet(data, "error", PyStr("")) IN
                 IF inner.exc # "" THEN Throws(inner)
                 ELSE LET msg == PyGet(data, "message", inner.val) IN
                      IF msg.exc # "" THEN Throws(msg)
                      ELSE Returns(Outcome(skill_name, "WARN",
                                           PyStr(Take(Str(msg.val), 80))))
             ELSE Returns(Outcome(skill_name, "PASS", PyStr("OK")))

\* TryBody with the FAIL message cut at the limit of the other messages
TryBody_Cut80(skill_name, r) ==
    IF r.kind = "exc" THEN Throws(r)
    ELSE LET data == RespJson(r) IN
         IF data.exc # "" THEN Throws(data)
         ELSE IF r.status = 200 THEN Status200(skill_name, data.val)
         ELSE Returns(Outcome(skill_name, "FAIL",
                 PyStr("HTTP " \o IntStr(r.status) \o ": " \o Take(Str(data.val), 80))))

\* the try block after generate_test_params: the POST's answer r, classified
TryBody(skill_name, r) ==
    IF r.kind = "exc" THEN Throws(r)
    ELSE LET data == RespJson(r) IN
         IF data.exc # "" THEN Throws(data)
         ELSE IF r.status = 200 THEN Status200(skill_name, data.val)
         ELSE Returns(Outcome(skill_name, "FAIL",
                 PyStr("HTTP " \o IntStr(r.status) \o ": " \o Take(Str(data.val), 60))))

\* the except clauses of test_skill, in their order
ExceptClauses(skill_name, t) ==
    IF t.exc = "" THEN t.out
    ELSE IF IsInstance(t.exc, "Timeout") THEN
        Outcome(skill_name, "TIMEOUT", PyStr("Request timeout"))
    ELSE Outcome(skill_name, "ERROR", PyStr(Take(t.text, 80)))

\* test_skill(skill_name, skill_info) when its POST, if it comes to it, does r
test_skill(skill_name, skill_info, r) ==
    LET params == generate_test_params(skill_name, skill_info) IN
    IF params.exc # "" THEN ExceptClauses(skill_name, Throws(params))
    ELSE ExceptClauses(skill_name, TryBody(skill_name, r))

---------------------------------------------------------------------------
(* unity_skills.py: UnitySkills.call.                                      *)

ErrorDict(text) == PyDict(<<"status", "error">>, <<PyStr("error"), PyStr(text)>>)

\* call(skill_name, ...) on the client of base URL url when its POST does r
call(url, r) ==
    LET t == IF r.kind = "exc" THEN Raise(r.exc, r.text) ELSE RespJson(r) IN
    IF t.exc = "" THEN t.val
    ELSE IF IsInstance(t.exc, "ConnectionError") THEN
        ErrorDict("Connection failed to " \o url \o ". Unity instance may be down.")
    ELSE ErrorDict(t.text)

---------------------------------------------------------------------------
(* The answers a POST is given in the checks.                              *)

\* length of a text longer than every truncation limit of test_skill
LongLen == 81
\* length of a text between the two truncation limits
MidLen == 70

LongText == Rep("x", LongLen)
MidText  == Rep("y", MidLen)

D1(k, v)         == PyDict(<<k>>, <<v>>)
D2(k1, v1, k2, v2) == PyDict(<<k1, k2>>, <<v1, v2>>)

\* parsed JSON bodies: dicts with and without error indicators, and non-dicts
Bodies ==
    { D1("status", PyStr("ok")),
      PyDict(<<>>, <<>>),
      D1("success", PyBool(TRUE)),
      D1("success", PyBool(FALSE)),
      D1("success", PyInt(0)),
      D1("success", PyStr("false")),
      D1("success", PyNone),
      D2("success", PyBool(FALSE), "message", PyStr("not found")),
      D2("success", PyBool(FALSE), "message", PyStr(LongText)),
      D2("success", PyBool(FALSE), "message", PyNone),
      D2("success", PyBool(FALSE), "message", PyInt(42)),
      D2("success", PyBool(FALSE), "message", PyList(<<PyStr("a"), PyStr("b")>>)),
      D2("success", PyBool(TRUE), "message", PyStr("created")),
      D1("error", PyStr("boom")),
      D1("error", PyStr("")),
      D1("error", PyStr(MidText)),
      D1("error", PyStr(LongText)),
      D1("error", PyNone),
      D1("error", PyInt(5)),
      D1("error", PyBool(FALSE)),
      D1("error", PyList(<<PyStr("a"), PyStr("b")>>)),
      D1("error", D1("code", PyInt(1))),
      D2("error", PyStr("boom"), "success", PyBool(FALSE)),
      D2("success", PyBool(TRUE), "error", PyNone),
      PyDict(<<"success", "message", "error">>,
             <<PyBool(FALSE), PyStr("not found"), PyStr("boom")>>),
      PyList(<<>>),
      PyList(<<PyStr("error")>>),
      PyList(<<PyStr("success")>>),
      PyStr("error: no such skill"),
      PyStr("success"),
      PyStr("ok"),
      PyInt(7),
      PyBool(TRUE),
      PyNone }

Statuses == {200, 201, 404, 500}

Failures ==
    { PostRaises("ConnectTimeout",
                 "HTTPConnectionPool: Max retries exceeded (connect timeout=30)"),
      PostRaises("ReadTimeout", "HTTPConnectionPool: Read timed out. (read timeout=30)"),
      PostRaises("ConnectionError", "HTTPConnectionPool: Max retries exceeded: refused"),
      PostRaises("TooManyRedirects", "Exceeded 30 redirects."),
      PostRaises("ChunkedEncodingError", LongText) }

Answers ==
    Failures
    \cup { HttpJson(st, v) : st \in Statuses, v \in Bodies }
    \cup { HttpText(st, "<html>" \o MidText \o "</html>") : st \in Statuses }
    \cup { HttpText(st, "") : st \in Statuses }

---------------------------------------------------------------------------
(* State outside a run of main().                                          *)

NoAnswer  == PostRaises("", "")
NoOutcome == Outcome("", "", PyNone)
NoReport  == [passed |-> 0, warned |-> 0, failed |-> 0, table |-> <<>>]

MainIdle ==
    /\ listing = <<>>
    /\ skills_info = <<>>
    /\ pc = "idle"
    /\ submitted = 0
    /\ queue = <<>>
    /\ running = {}
    /\ sent = <<>>
    /\ answer = <<>>
    /\ future = <<>>
    /\ pending = {}
    /\ results = <<>>
    /\ progress = <<>>
    /\ report = NoReport

mainVars == <<listing, skills_info, pc, submitted, queue, running, sent, answer,
              future, pending, results, progress, report>>

fnVars == <<fn, fn_in, fn_out>>

FnIdle ==
    /\ fn = [name |-> "", done |-> FALSE]
    /\ fn_in = <<>>
    /\ fn_out = <<>>

---------------------------------------------------------------------------
(* One invocation classified: test_skill, and UnitySkills.call, applied to *)
(* every answer.                                                           *)

UNITY_URL == "http://localhost:8090"

\* a catalog entry that is in no override table and declares no parameter
PlainInfo(name) == PyDict(<<"name", "parameters">>, <<PyStr(name), PyList(<<>>)>>)

InitClassify ==
    /\ MainIdle
    /\ fn \in {[name |-> "test_skill", done |-> FALSE], [name |-> "call", done |-> FALSE]}
    /\ fn_in \in Answers
    /\ fn_out = <<>>

RunTestSkill ==
    /\ fn = [name |-> "test_skill", done |-> FALSE]
    /\ fn_out' = test_skill("scene_list", PlainInfo("scene_list"), fn_in)
    /\ fn' = [fn EXCEPT !.done = TRUE]
    /\ UNCHANGED <<fn_in, mainVars>>

RunCall ==
    /\ fn = [name |-> "call", done |-> FALSE]
    /\ fn_out' = call(UNITY_URL, fn_in)
    /\ fn' = [fn EXCEPT !.done = TRUE]
    /\ UNCHANGED <<fn_in, mainVars>>

NextClassify == RunTestSkill \/ RunCall

SpecClassify == InitClassify /\ [][NextClassify]_vars

TestSkillDone == fn = [name |-> "test_skill", done |-> TRUE]
CallDone      == fn = [name |-> "call", done |-> TRUE]

---------------------------------------------------------------------------
(* Claims about one classified invocation (SpecClassify).                  *)

EndsWith(s, p) == Len(p) <= Len(s) /\ SubSeq(s, Len(s) - Len(p) + 1, Len(s)) = p

IsTimeoutAnswer(a)   == a.kind = "exc" /\ IsInstance(a.exc, "Timeout")
IsTransportError(a)  == a.kind = "exc" /\ ~IsInstance(a.exc, "Timeout")

\* C6: a request that times out yields a timeout outcome of its own: test_skill
\* gives the verdict TIMEOUT, and what call returns for it differs from what
\* call returns for every transport failure that is no timeout.
C6_TimeoutDistinct ==
    IsTimeoutAnswer(fn_in) =>
        /\ TestSkillDone => fn_out.status = "TIMEOUT"
        /\ CallDone =>
              \A a \in Answers : IsTransportError(a) => call(UNITY_URL, a) # fn_out

\* C7: on status 200 test_skill classifies in this order: an error field gives
\* WARN with the error text cut to 80 characters; else success = false gives
\* WARN with the message field (or the error text) cut to 80 characters; else
\* PASS.
C7_Status200Order ==
    (TestSkillDone /\ fn_in.kind = "http" /\ fn_in.status = 200 /\ fn_in.json
        /\ fn_in.data.t = "dict") =>
        LET data == fn_in.data IN
        IF HasKey(data, "error") THEN
            /\ fn_out.status = "WARN"
            /\ fn_out.msg = PyStr(Take(Str(Lookup(data, "error")), 80))
        ELSE IF HasKey(data, "success") /\ EqFalse(Lookup(data, "success")) THEN
            /\ fn_out.status = "WARN"
            /\ fn_out.msg = PyStr(Take(Str(DictGet(data, "message", PyStr(""))), 80))
        ELSE fn_out.status = "PASS"

\* C8 as first stated: every response with a non-success status is classified
\* FAIL, with a message holding the status code followed by the response body
\* (its text, or the str() of what it parses to) cut to 60 characters, whatever
\* the body is.
C8_NonSuccessAlwaysFail ==
    (TestSkillDone /\ fn_in.kind = "http" /\ fn_in.status \notin 200..299) =>
        /\ fn_out.status = "FAIL"
        /\ fn_out.msg.t = "str"
        /\ StartsWith(fn_out.msg.s, "HTTP " \o IntStr(fn_in.status))
        /\ \/ EndsWith(fn_out.msg.s, Take(fn_in.body, 60))
           \/ fn_in.json /\ EndsWith(fn_out.msg.s, Take(Str(fn_in.data), 60))

\* C8 (amended): every response with a status other than 200 whose body parses
\* as JSON is classified FAIL with the message "HTTP <status>: " followed by the
\* first 60 characters of str() of the parsed body; with a body that does not
\* parse the verdict is ERROR.
C8_Not200JsonFails ==
    (TestSkillDone /\ fn_in.kind = "http" /\ fn_in.status # 200) =>
        IF fn_in.json
        THEN /\ fn_out.status = "FAIL"
             /\ fn_out.msg =
                  PyStr("HTTP " \o IntStr(fn_in.status) \o ": " \o Take(Str(fn_in.data), 60))
             /\ Len(fn_out.msg.s) <= Len("HTTP : ") + Len(IntStr(fn_in.status)) + 60
        ELSE fn_out.status = "ERROR"

\* a 500 whose parsed body is longer than 60 characters was classified FAIL
C8_Witness ==
    /\ TestSkillDone
    /\ fn_in.kind = "http" /\ fn_in.status = 500 /\ fn_in.json
    /\ Len(Str(fn_in.data)) > 60
    /\ fn_out.status = "FAIL"

---------------------------------------------------------------------------
(* test_all_skills.py: main() and the executor's workers.                  *)

Name(info) == Lookup(info, "name").s

RECURSIVE CatalogFrom(_, _)
\* the dict comprehension {s['name']: s for s in skills}, from acc on: a name
\* seen again keeps its place and takes the later descriptor
CatalogFrom(acc, skills) ==
    IF skills = <<>> THEN acc
    ELSE LET d == Head(skills) IN
         IF \E j \in 1..Len(acc) : Name(acc[j]) = Name(d)
         THEN CatalogFrom([j \in 1..Len(acc) |->
                              IF Name(acc[j]) = Name(d) THEN d ELSE acc[j]],
                          Tail(skills))
         ELSE CatalogFrom(Append(acc, d), Tail(skills))

\* get_skills_info() when GET /skills answers {"skills": skills}
get_skills_info(skills) == CatalogFrom(<<>>, skills)

Ops == 1..Len(skills_info)

max_workers == 10

\* the executor runs a queued call only while fewer than max_workers run
CanStart_NoCap == TRUE
CanStart == Cardinality(running) < max_workers

\* as_completed gives each future once; the loop ends when none is left
LoopOver_AfterFirst == results # <<>>
LoopOver == pending = {}

RECURSIVE InsertByName(_, _)
\* o put into the name-sorted rows, after the rows of the same name
InsertByName(rows, o) ==
    IF rows = <<>> THEN <<o>>
    ELSE IF StrLess(o.name, Head(rows).name) THEN <<o>> \o rows
    ELSE <<Head(rows)>> \o InsertByName(Tail(rows), o)

RECURSIVE SortFrom(_, _)
SortFrom(acc, rows) ==
    IF rows = <<>> THEN acc ELSE SortFrom(InsertByName(acc, Head(rows)), Tail(rows))

\* results.sort(key=lambda x: x[0])
SortByName_Unsorted(rows) == rows
SortByName(rows) == SortFrom(<<>>, rows)

\* sum(1 for r in rows if <one of words> in r[1])
CountStatus(rows, words) ==
    Cardinality({i \in 1..Len(rows) : \E w \in words : Contains(w, rows[i].status)})

RECURSIVE Escape(_)
\* msg.replace('|', '\\|')
Escape(s) ==
    IF s = "" THEN ""
    ELSE (IF Head(s) = "|" THEN "\\|" ELSE Head(s)) \o Escape(Tail(s))

\* one row of the Markdown table (the backquotes around the name left out)
TableRow(i, o) ==
    "| " \o IntStr(i) \o " | " \o o.name \o " | " \o o.status \o " | "
         \o Escape(o.msg.s) \o " |"

GetSkills ==
    /\ pc = "start"
    /\ LET info == get_skills_info(listing) IN
        /\ skills_info' = info
        /\ sent' = [i \in 1..Len(info) |-> <<>>]
        /\ answer' = [i \in 1..Len(info) |-> NoAnswer]
        /\ future' = [i \in 1..Len(info) |-> NoOutcome]
        /\ pending' = 1..Len(info)
        /\ pc' = IF Len(info) = 0 THEN "collect" ELSE "submit"
    /\ results' = <<>>
    /\ UNCHANGED <<listing, submitted, queue, running, progress, report, fnVars>>

\* executor.submit(test_skill, name, info) for the next catalog entry
Submit ==
    /\ pc = "submit"
    /\ submitted < Len(skills_info)
    /\ submitted' = submitted + 1
    /\ queue' = Append(queue, submitted + 1)
    /\ pc' = IF submitted + 1 = Len(skills_info) THEN "collect" ELSE "submit"
    /\ UNCHANGED <<listing, skills_info, running, sent, answer, future, pending,
                   results, progress, report, fnVars>>

\* a worker takes the oldest queued call and runs test_skill up to its POST
WorkerStart ==
    /\ queue # <<>>
    /\ CanStart
    /\ LET i == Head(queue)
           params == generate_test_params(Name(skills_info[i]), skills_info[i])
       IN
        /\ queue' = Tail(queue)
        /\ IF params.exc = ""
           THEN /\ sent' = [sent EXCEPT ![i] = Append(@, params.val)]
                /\ running' = running \cup {i}
                /\ UNCHANGED future
           ELSE /\ future' = [future EXCEPT ![i] =
                      test_skill(Name(skills_info[i]), skills_info[i], NoAnswer)]
                /\ UNCHANGED <<sent, running>>
    /\ UNCHANGED <<listing, skills_info, pc, submitted, answer, pending, results,
                   progress, report, fnVars>>

\* the POST of call i does a; test_skill returns and the future is done
WorkerFinish(i, a) ==
    /\ i \in running
    /\ answer' = [answer EXCEPT ![i] = a]
    /\ future' = [future EXCEPT ![i] =
                     test_skill(Name(skills_info[i]), skills_info[i], a)]
    /\ running' = running \ {i}
    /\ UNCHANGED <<listing, skills_info, pc, submitted, queue, sent, pending,
                   results, progress, report, fnVars>>

\* one round of `for i, future in enumerate(as_completed(futures), 1)`
Collect(i) ==
    /\ pc = "collect"
    /\ ~LoopOver
    /\ i \in pending
    /\ future[i] # NoOutcome
    /\ pending' = pending \ {i}
    /\ results' = Append(results, future[i])
    /\ progress' = Append(progress, future[i].name)
    /\ UNCHANGED <<listing, skills_info, pc, submitted, queue, running, sent,
                   answer, future, report, fnVars>>

\* the loop and the `with` block end
ExitPool ==
    /\ pc = "collect"
    /\ LoopOver
    /\ running = {} /\ queue = <<>>
    /\ pc' = "sort"
    /\ UNCHANGED <<listing, skills_info, submitted, queue, running, sent, answer,
                   future, pending, results, progress, report, fnVars>>

\* the sort and the three counts
SortAndCount ==
    /\ pc = "sort"
    /\ results' = SortByName(results)
    /\ report' = [report EXCEPT
                    !.passed = CountStatus(results', {"PASS"}),
                    !.warned = CountStatus(results', {"WARN"}),
                    !.failed = CountStatus(results', {"FAIL", "ERROR", "TIMEOUT"})]
    /\ pc' = "render"
    /\ UNCHANGED <<listing, skills_info, submitted, queue, running, sent, answer,
                   future, pending, progress, fnVars>>

\* the table is printed; msg.replace raises on a message that is no str
Render ==
    /\ pc = "render"
    /\ IF \A k \in 1..Len(results) : results[k].msg.t = "str"
       THEN /\ report' = [report EXCEPT
                            !.table = [k \in 1..Len(results) |-> TableRow(k, results[k])]]
            /\ pc' = "done"
       ELSE /\ pc' = "crashed"
            /\ UNCHANGED report
    /\ UNCHANGED <<listing, skills_info, submitted, queue, running, sent, answer,
                   future, pending, results, progress, fnVars>>

---------------------------------------------------------------------------
(* Catalogs and answers of the runs of main() that are checked.            *)

Param(name, type, required) ==
    PyDict(<<"name", "type", "required">>, <<PyStr(name), PyStr(type), PyBool(required)>>)
ParamWithDefault(name, type, required, default) ==
    PyDict(<<"name", "type", "required", "defaultValue">>,
           <<PyStr(name), PyStr(type), PyBool(required), default>>)
Desc(name, params) ==
    PyDict(<<"name", "description", "parameters">>,
           <<PyStr(name), PyStr(""), PyList(params)>>)

SchemaOf(name) ==
    CASE name = "gameobject_find" -> <<Param("name", "string", TRUE)>>
      [] name = "asset_delete"    -> <<Param("assetPath", "string", TRUE)>>
      [] name = "console_log"     ->
            << Param("message", "string", TRUE),
               ParamWithDefault("count", "integer", FALSE, PyInt(5)) >>
      [] OTHER -> <<>>

\* names in an order that is not the sorted one
OpNames == <<"scene_list", "gameobject_find", "asset_delete", "console_log", "editor_play">>

\* the largest catalog of a full run
MaxOps == 3

\* the largest catalog of a run checked for termination
LiveOps == 2

\* listings of up to n operations, and one that names an operation twice
Listings(n) ==
    { [i \in 1..k |-> Desc(OpNames[i], SchemaOf(OpNames[i]))] : k \in 0..n }
    \cup { << Desc("scene_list", <<>>), Desc("asset_delete", SchemaOf("asset_delete")),
              Desc("scene_list", <<Param("verbose", "boolean", TRUE)>>) >> }

DispatchAnswers ==
    { PostRaises("ReadTimeout", "HTTPConnectionPool: Read timed out. (read timeout=30)"),
      PostRaises("ConnectionError", "HTTPConnectionPool: Max retries exceeded: refused"),
      HttpJson(200, D1("status", PyStr("ok"))),
      HttpJson(200, D2("success", PyBool(FALSE), "message", PyStr("not found"))),
      HttpJson(200, D1("error", PyList(<<PyStr("a"), PyStr("b")>>))),
      HttpJson(500, D1("error", PyStr("boom"))) }

MainStart ==
    /\ skills_info = <<>>
    /\ pc = "start"
    /\ submitted = 0
    /\ queue = <<>>
    /\ running = {}
    /\ sent = <<>>
    /\ answer = <<>>
    /\ future = <<>>
    /\ pending = {}
    /\ results = <<>>
    /\ progress = <<>>
    /\ report = NoReport

Init ==
    /\ listing \in Listings(MaxOps)
    /\ MainStart
    /\ FnIdle

Next ==
    \/ GetSkills
    \/ Submit
    \/ WorkerStart
    \/ \E i \in Ops, a \in DispatchAnswers : WorkerFinish(i, a)
    \/ \E i \in Ops : Collect(i)
    \/ ExitPool
    \/ SortAndCount
    \/ Render

Spec == Init /\ [][Next]_vars

\* the threads keep being scheduled and every POST is answered or times out:
\* while some step of the run can be taken, one is taken
InitLive ==
    /\ listing \in Listings(LiveOps)
    /\ MainStart
    /\ FnIdle

FairSpec == InitLive /\ [][Next]_vars /\ WF_vars(Next)

---------------------------------------------------------------------------
(* The executor alone, on a catalog larger than the pool.  Collect,        *)
(* SortAndCount and Render read the futures and write only main's own      *)
(* variables, so the executor's states are those of the full run.          *)

PoolNames == <<"scene_list", "gameobject_find", "console_log">> \o SafeNames

\* the size of the catalog of the executor's run
PoolSize == 11

\* the server of the executor's run refuses the connection of every other
\* operation and answers the rest
PoolAnswers(i) ==
    IF i % 2 = 1
    THEN {PostRaises("ConnectionError", "HTTPConnectionPool: Max retries exceeded: refused")}
    ELSE {HttpJson(200, D1("status", PyStr("ok")))}

InitPool ==
    /\ listing = [i \in 1..PoolSize |-> Desc(PoolNames[i], SchemaOf(PoolNames[i]))]
    /\ MainStart
    /\ FnIdle

NextPool ==
    \/ GetSkills
    \/ Submit
    \/ WorkerStart
    \/ \E i \in Ops : \E a \in PoolAnswers(i) : WorkerFinish(i, a)

SpecPool == InitPool /\ [][NextPool]_vars

---------------------------------------------------------------------------
(* Claims about a run of main() (Spec, FairSpec, SpecPool).                *)

Done(i) == future[i] # NoOutcome
MainEnded == pc \in {"done", "crashed"}
Sorted == pc \in {"render", "done", "crashed"}

\* the row of the report for catalog entry i
RowsOf(i) == {k \in 1..Len(results) : results[k].name = Name(skills_info[i])}

\* C1: when exactly one invocation raises a transport exception, main() runs to
\* its end, that operation's verdict is ERROR, and every other operation has
\* the verdict of its own answer.
C1_IsolatedFailure ==
    (MainEnded /\ Cardinality({i \in Ops : IsTransportError(answer[i])}) = 1) =>
        /\ pc = "done"
        /\ \A i \in Ops : \A k \in RowsOf(i) :
              results[k].status =
                 IF IsTransportError(answer[i]) THEN "ERROR"
                 ELSE test_skill(Name(skills_info[i]), skills_info[i], answer[i]).status

\* C2: every operation of the catalog get_skills_info returns is POSTed once,
\* never twice and none left out, with the parameters synthesized for it, and
\* at most 10 invocations are in flight at any time.
C2_OncePerOperation ==
    /\ Cardinality(running) <= 10
    /\ pc # "start" =>
          {Name(skills_info[i]) : i \in Ops} = {Name(listing[j]) : j \in 1..Len(listing)}
    /\ \A i \in Ops :
          /\ Len(sent[i]) <= 1
          /\ (i \in running \/ Done(i)) => Len(sent[i]) = 1
          /\ Len(sent[i]) = 1 => sent[i][1].t = "dict"
    /\ (pc = "collect" /\ queue = <<>> /\ running = {}) =>
          \A i \in Ops : Done(i) /\ Len(sent[i]) = 1

\* the pool is full and a call waits in the queue
C2_Witness == Cardinality(running) = 10 /\ queue # <<>>

OneOutcomePerOp ==
    /\ submitted = Len(skills_info)
    /\ Len(results) = Len(skills_info)
    /\ \A i \in Ops : Done(i) /\ Cardinality(RowsOf(i)) = 1
                             /\ \A k \in RowsOf(i) : results[k] = future[i]

\* C3: when main() comes to the sort, results holds one outcome for every
\* submitted operation, none lost and none twice; and, every POST being
\* answered or timing out, main() does come to the sort.
C3_AllOutcomesBeforeSort ==
    /\ [](pc = "sort" => OneOutcomePerOp)
    /\ <>(pc = "sort")

\* main() is at the sort after the futures completed out of submission order
C3_Witness ==
    /\ pc = "sort"
    /\ Len(results) = Len(skills_info)
    /\ Len(results) >= 2
    /\ results[1].name # Name(skills_info[1])

\* C4: the report does not depend on the completion order: its rows are
\* sorted by operation name and are the outcomes of the futures, passed counts
\* the PASS outcomes, warned the WARN outcomes, failed the FAIL, ERROR and
\* TIMEOUT outcomes, and the three counts add up to the number of rows.
C4_ReportSorted ==
    Sorted =>
        /\ \A k \in 1..(Len(results) - 1) : StrLess(results[k].name, results[k + 1].name)
        /\ {results[k] : k \in 1..Len(results)} = {future[i] : i \in Ops}
        /\ report.passed = Cardinality({i \in Ops : future[i].status = "PASS"})
        /\ report.warned = Cardinality({i \in Ops : future[i].status = "WARN"})
        /\ report.failed =
              Cardinality({i \in Ops : future[i].status \in {"FAIL", "ERROR", "TIMEOUT"}})
        /\ report.passed + report.warned + report.failed = Len(results)

\* a PASS, a WARN and a FAIL, completed in an order that is not the sorted one,
\* were reported
C4_Witness ==
    /\ pc = "done"
    /\ Len(results) = 3
    /\ {results[k].status : k \in 1..Len(results)} = {"PASS", "WARN", "FAIL"}
    /\ report.passed = 1 /\ report.warned = 1 /\ report.failed = 1
    /\ \E k \in 1..Len(results) : progress[k] # results[k].name

\* C5: whatever the POST of an invocation does, main() goes on through
\* collection, sort and rendering without raising.
C5_NoRunFault == pc # "crashed"

---------------------------------------------------------------------------
(* generate_test_params applied to every operation name and schema.        *)

ParamNames ==
    {"assetPath", "path", "name", "items", "filter", "value",
     "scenePath", "searchPath", "nameFilter", "searchQuery"}
ParamTypes == {"string", "integer", "number", "boolean", "array", "object"}
Defaults   ==
    {PyStr("null"), PyStr("Main"), PyInt(0), PyBool(FALSE), PyStr(""), PyNone}

ParamDescs ==
    { Param(n, t, r) : n \in ParamNames, t \in ParamTypes, r \in BOOLEAN }
    \cup { ParamWithDefault(n, t, r, d) :
             n \in ParamNames, t \in ParamTypes, r \in BOOLEAN, d \in Defaults }

\* what GET /skills may say of one operation: schemas of one and of two
\* parameters (of two names), none, and descriptors that leave `parameters`
\* out or null
SkillInfos(name) ==
    { Desc(name, <<p>>) : p \in ParamDescs }
    \cup { Desc(name, <<Param("assetPath", "string", TRUE), p>>) :
             p \in { ParamWithDefault(n, "string", FALSE, PyStr("Main")) :
                      n \in ParamNames \ {"assetPath"} } }
    \cup { Desc(name, <<>>),
           PyDict(<<"name">>, <<PyStr(name)>>),
           PyDict(<<"name", "parameters">>, <<PyStr(name), PyNone>>) }

SynthNames == {SafeNames[i] : i \in 1..Len(SafeNames)} \cup {"scene_list", "gameobject_find"}

InitSynth ==
    /\ MainIdle
    /\ fn = [name |-> "generate_test_params", done |-> FALSE]
    /\ \E n \in SynthNames : \E d \in SkillInfos(n) :
          fn_in = [skill_name |-> n, skill_info |-> d]
    /\ fn_out = <<>>

RunSynth ==
    /\ fn = [name |-> "generate_test_params", done |-> FALSE]
    /\ fn_out' = generate_test_params(fn_in.skill_name, fn_in.skill_info)
    /\ fn' = [fn EXCEPT !.done = TRUE]
    /\ UNCHANGED <<fn_in, mainVars>>

NextSynth == RunSynth

SpecSynth == InitSynth /\ [][NextSynth]_vars

SynthDone == fn = [name |-> "generate_test_params", done |-> TRUE]

InTable(name) == \E i \in 1..Len(SafeNames) : SafeNames[i] = name

\* C9: for an operation named in the override table, whatever schema it
\* declares, the synthesized parameters are the table's fixed set and hold
\* nothing taken from the schema; asset_delete gets exactly
\* {"assetPath": "Assets/__nonexistent_test_file__.txt"}.
C9_OverrideWins ==
    (SynthDone /\ InTable(fn_in.skill_name)) =>
        /\ fn_out.exc = ""
        /\ \A i \in 1..Len(SafeNames) :
              SafeNames[i] = fn_in.skill_name => fn_out.val = SafeValues[i]
        /\ fn_in.skill_name = "asset_delete" =>
              fn_out.val = D1("assetPath", PyStr("Assets/__nonexistent_test_file__.txt"))

\* asset_delete was synthesized against a schema whose assetPath has a default
C9_Witness ==
    /\ SynthDone
    /\ fn_in.skill_name = "asset_delete"
    /\ fn_in.skill_info =
          Desc("asset_delete", <<ParamWithDefault("assetPath", "string", TRUE, PyStr("Main"))>>)
    /\ fn_out.val = D1("assetPath", PyStr("Assets/__nonexistent_test_file__.txt"))

\* the parameters the schema in hand declares
Declared ==
    IF fn_in.skill_info.t = "dict" /\ HasKey(fn_in.skill_info, "parameters")
       /\ Lookup(fn_in.skill_info, "parameters").t = "list"
    THEN Lookup(fn_in.skill_info, "parameters").vs
    ELSE <<>>

\* the schema in hand lists its parameters, or leaves `parameters` out
SchemaListed ==
    /\ fn_in.skill_info.t = "dict"
    /\ HasKey(fn_in.skill_info, "parameters") =>
          Lookup(fn_in.skill_info, "parameters").t = "list"

\* a default that is there and is not the "null" sentinel
HasDefault(p) ==
    /\ HasKey(p, "defaultValue")
    /\ Lookup(p, "defaultValue") # PyNone
    /\ Lookup(p, "defaultValue") # PyStr("null")

IsRequired(p) == HasKey(p, "required") /\ Lookup(p, "required") = PyBool(TRUE)

\* the declared parameters that are required, of type string and without a
\* usable default
RequiredStrings ==
    { i \in 1..Len(Declared) :
        /\ IsRequired(Declared[i])
        /\ Lookup(Declared[i], "type") = PyStr("string")
        /\ ~HasDefault(Declared[i]) }

\* the parameter name holds the word, in whatever case
NameHas(p, word) == Contains(word, Lower(Lookup(p, "name").s))

\* the schema in hand was synthesized for an operation outside the table
PlainSynthDone == SynthDone /\ ~InTable(fn_in.skill_name)

\* the value synthesized for the parameter p is the str text
Yields(p, text) ==
    /\ fn_out.exc = ""
    /\ HasKey(fn_out.val, Lookup(p, "name").s)
    /\ Lookup(fn_out.val, Lookup(p, "name").s) = PyStr(text)

\* C12 as stated: a required string parameter without usable default, of an
\* operation outside the override table, gets "Assets" when its name holds
\* path and not asset, and gets "*" whenever its name holds filter or search.
C12_FilterAlwaysStar ==
    PlainSynthDone =>
        \A i \in RequiredStrings :
            LET p == Declared[i] IN
            /\ (NameHas(p, "path") /\ ~NameHas(p, "asset")) => Yields(p, "Assets")
            /\ (NameHas(p, "filter") \/ NameHas(p, "search")) => Yields(p, "*")

\* C12, amended: a required string parameter without usable default, of an
\* operation outside the override table, gets "Assets" when its name holds
\* path and not asset; it gets "*" when its name holds filter or search and
\* none of path, folder, name and items, which are looked for first.
C12_OrderedPlaceholders ==
    PlainSynthDone =>
        \A i \in RequiredStrings :
            LET p == Declared[i] IN
            /\ (NameHas(p, "path") /\ ~NameHas(p, "asset")) => Yields(p, "Assets")
            /\ ( /\ NameHas(p, "filter") \/ NameHas(p, "search")
                 /\ ~NameHas(p, "path") /\ ~NameHas(p, "folder")
                 /\ ~NameHas(p, "name") /\ ~NameHas(p, "items") ) => Yields(p, "*")

\* the required string searchPath, whose name holds both search and path, got
\* the folder placeholder
C12_Witness ==
    /\ PlainSynthDone
    /\ fn_in.skill_info = Desc(fn_in.skill_name, <<Param("searchPath", "string", TRUE)>>)
    /\ fn_out.val = D1("searchPath", PyStr("Assets"))

\* C13: for an operation outside the override table whose schema lists its
\* parameters, every declared parameter with a default other than "null" gets
\* exactly that default, required or not, falsy or not; every optional
\* parameter without usable default is left out; and every key of the result
\* is the name of a declared parameter.
C13_DefaultsUsed ==
    (PlainSynthDone /\ SchemaListed) =>
        /\ fn_out.exc = ""
        /\ \A i \in 1..Len(Declared) :
              LET p    == Declared[i]
                  name == Lookup(p, "name").s
              IN
              /\ HasDefault(p) =>
                    /\ HasKey(fn_out.val, name)
                    /\ Lookup(fn_out.val, name) = Lookup(p, "defaultValue")
              /\ (~HasDefault(p) /\ ~IsRequired(p)) => ~HasKey(fn_out.val, name)
        /\ \A k \in 1..Len(fn_out.val.ks) :
              \E i \in 1..Len(Declared) : Lookup(Declared[i], "name").s = fn_out.val.ks[k]

\* an optional integer parameter with the default 0 got 0
C13_Witness ==
    /\ PlainSynthDone
    /\ fn_in.skill_info =
          Desc(fn_in.skill_name, <<ParamWithDefault("value", "integer", FALSE, PyInt(0))>>)
    /\ fn_out.val = D1("value", PyInt(0))

---------------------------------------------------------------------------
(* unity_skills.py: UnitySkills._find_port_by_target.                      *)
(* The registry file is absent, or holds text that is no JSON, or holds    *)
(* the JSON value data (a dict from project path to instance record).      *)

NoHit == [hit |-> FALSE, raised |-> FALSE, port |-> PyNone]

RECURSIVE FirstMatch(_, _, _)
\* `for path, info in data.items(): if info.get(field) == target: return
\* info.get('port')` over the records infos: the first hit, or the raise of a
\* record that is no dict
FirstMatch(field, infos, target) ==
    IF infos = <<>> THEN NoHit
    ELSE LET info == Head(infos) IN
         IF info.t # "dict" THEN [NoHit EXCEPT !.raised = TRUE]
         ELSE IF DictGet(info, field, PyNone) = PyStr(target)
              THEN [hit |-> TRUE, raised |-> FALSE, port |-> DictGet(info, "port", PyNone)]
              ELSE FirstMatch(field, Tail(infos), target)

\* the two loops in the order name, id
find_port_by_target_NameFirst(reg, target) ==
    IF reg.state # "ok" \/ reg.data.t # "dict" THEN PyNone
    ELSE LET byName == FirstMatch("name", reg.data.vs, target) IN
         IF byName.raised THEN PyNone
         ELSE IF byName.hit THEN byName.port
         ELSE LET byId == FirstMatch("id", reg.data.vs, target) IN
              IF byId.raised THEN PyNone
              ELSE IF byId.hit THEN byId.port
              ELSE PyNone

\* _find_port_by_target(target) on the registry reg: the port, or None
find_port_by_target(reg, target) ==
    IF reg.state = "absent" THEN PyNone
    ELSE IF reg.state = "malformed" THEN PyNone
    ELSE IF reg.data.t # "dict" THEN PyNone
    ELSE LET byId == FirstMatch("id", reg.data.vs, target) IN
         IF byId.raised THEN PyNone
         ELSE IF byId.hit THEN byId.port
         ELSE LET byName == FirstMatch("name", reg.data.vs, target) IN
              IF byName.raised THEN PyNone
              ELSE IF byName.hit THEN byName.port
              ELSE PyNone

Instance(id, name, port) ==
    PyDict(<<"id", "name", "port">>, <<PyStr(id), PyStr(name), PyInt(port)>>)

\* the largest registry
MaxRecords == 3

Paths     == <<"/proj/A", "/proj/B", "/proj/C", "/proj/D", "/proj/E">>
Ids       == {"A1", "B2", "Foo", "C3"}
InstNames == {"Foo", "Bar", "A1"}
Targets   == {"A1", "B2", "Foo", "Bar", "nope"}

\* registries of k records in file order: ids differ from record to record,
\* names need not; the record at place i listens on port 8090 + i
RegistriesOf(k) ==
    { PyDict(SubSeq(Paths, 1, k), [i \in 1..k |-> Instance(f[i][1], f[i][2], 8090 + i)]) :
        f \in { g \in [1..k -> Ids \X InstNames] :
                  \A i, j \in 1..k : i # j => g[i][1] # g[j][1] } }

Registries ==
    { [state |-> "absent", data |-> PyNone], [state |-> "malformed", data |-> PyNone],
      [state |-> "ok", data |-> PyList(<<>>)] }
    \cup { [state |-> "ok", data |-> d] : d \in UNION { RegistriesOf(k) : k \in 0..MaxRecords } }

InitResolve ==
    /\ MainIdle
    /\ fn = [name |-> "_find_port_by_target", done |-> FALSE]
    /\ fn_in \in [reg : Registries, target : Targets]
    /\ fn_out = <<>>

RunResolve ==
    /\ fn = [name |-> "_find_port_by_target", done |-> FALSE]
    /\ fn_out' = find_port_by_target(fn_in.reg, fn_in.target)
    /\ fn' = [fn EXCEPT !.done = TRUE]
    /\ UNCHANGED <<fn_in, mainVars>>

NextResolve == RunResolve

SpecResolve == InitResolve /\ [][NextResolve]_vars

ResolveDone == fn = [name |-> "_find_port_by_target", done |-> TRUE]

\* the records of a registry that parsed to a dict
Records(reg) == IF reg.state = "ok" /\ reg.data.t = "dict" THEN reg.data.vs ELSE <<>>

IdIs(info, target)   == Lookup(info, "id") = PyStr(target)
NameIs(info, target) == Lookup(info, "name") = PyStr(target)

\* C10: a token equal to a record's id resolves to that record's port, also
\* when another record, before or after it, has the token as its name; a token
\* that is no id resolves to the port of the first record named so, and a token
\* that is neither to None.  With the one record {id A1, name Foo, port 8091}:
\* A1 and Foo resolve to 8091, nope to None.
C10_IdBeforeName ==
    ResolveDone =>
        LET recs == Records(fn_in.reg)
            t    == fn_in.target
            ids  == {i \in 1..Len(recs) : IdIs(recs[i], t)}
            nms  == {i \in 1..Len(recs) : NameIs(recs[i], t)}
        IN
        /\ \A i \in ids : fn_out = Lookup(recs[i], "port")
        /\ (ids = {} /\ nms # {}) =>
              fn_out = Lookup(recs[CHOOSE i \in nms : \A j \in nms : i <= j], "port")
        /\ (ids = {} /\ nms = {}) => fn_out = PyNone
        /\ recs = <<Instance("A1", "Foo", 8091)>> =>
              fn_out = IF t \in {"A1", "Foo"} THEN PyInt(8091) ELSE PyNone

\* the token is the name of the first record and the id of the second, and the
\* second record's port came back
C10_Witness ==
    /\ ResolveDone
    /\ Len(Records(fn_in.reg)) >= 2
    /\ NameIs(Records(fn_in.reg)[1], fn_in.target)
    /\ IdIs(Records(fn_in.reg)[2], fn_in.target)
    /\ fn_out = PyInt(8092)

---------------------------------------------------------------------------
(* unity_skills.py: UnitySkills.__init__(port, target, url) on a machine   *)
(* whose registry is reg.  It gives self.url, or raises.                   *)

DEFAULT_PORT == 8090

\* f"http://localhost:{port}"
LocalUrl(port) == PyStr("http://localhost:" \o Str(port))

\* __init__ taking the default port when the target is not in the registry
UnitySkills_init_Fallback(port, target, url, reg) ==
    IF Truthy(url) THEN Ok(url)
    ELSE IF Truthy(port) THEN Ok(LocalUrl(port))
    ELSE IF Truthy(target) THEN
        LET found_port == find_port_by_target(reg, target.s) IN
        IF Truthy(found_port) THEN Ok(LocalUrl(found_port))
        ELSE Ok(LocalUrl(PyInt(DEFAULT_PORT)))
    ELSE Ok(LocalUrl(PyInt(DEFAULT_PORT)))

\* UnitySkills(port, target, url): Ok(self.url), or the raise
UnitySkills_init(port, target, url, reg) ==
    IF Truthy(url) THEN Ok(url)
    ELSE IF Truthy(port) THEN Ok(LocalUrl(port))
    ELSE IF Truthy(target) THEN
        LET found_port == find_port_by_target(reg, target.s) IN
        IF Truthy(found_port) THEN Ok(LocalUrl(found_port))
        ELSE Raise("ValueError",
                   "Could not find Unity instance matching '" \o Str(target)
                       \o "' in registry.")
    ELSE Ok(LocalUrl(PyInt(DEFAULT_PORT)))

\* the largest registry a client is constructed against
ConnectRecords == 2

ConnectRegistries ==
    { [state |-> "absent", data |-> PyNone], [state |-> "malformed", data |-> PyNone],
      [state |-> "ok", data |-> PyList(<<>>)] }
    \cup { [state |-> "ok", data |-> d] :
             d \in UNION { RegistriesOf(k) : k \in 0..ConnectRecords } }

\* port=, target= and url= of a construction: left out (None), empty, or given
PortArgs   == {PyNone, PyInt(0), PyInt(8095)}
TargetArgs == {PyNone, PyStr("")} \cup {PyStr(t) : t \in Targets}
UrlArgs    == {PyNone, PyStr("http://10.0.0.5:8090")}

InitConnect ==
    /\ MainIdle
    /\ fn_out = <<>>
    /\ \/ /\ fn = [name |-> "_find_port_by_target", done |-> FALSE]
          /\ fn_in \in [reg : ConnectRegistries, target : Targets]
       \/ /\ fn = [name |-> "__init__", done |-> FALSE]
          /\ fn_in \in [reg : ConnectRegistries, port : PortArgs,
                        target : TargetArgs, url : UrlArgs]

RunInit ==
    /\ fn = [name |-> "__init__", done |-> FALSE]
    /\ fn_out' = UnitySkills_init(fn_in.port, fn_in.target, fn_in.url, fn_in.reg)
    /\ fn' = [fn EXCEPT !.done = TRUE]
    /\ UNCHANGED <<fn_in, mainVars>>

NextConnect == RunResolve \/ RunInit

SpecConnect == InitConnect /\ [][NextConnect]_vars

ConnectDone == fn = [name |-> "__init__", done |-> TRUE]

\* no record of the registry has the token as its id or as its name; so it
\* is of a registry that is absent, unparsable or no dict
NoMatch(reg, target) ==
    \A i \in 1..Len(Records(reg)) :
        ~IdIs(Records(reg)[i], target) /\ ~NameIs(Records(reg)[i], target)

\* C11 as stated: when the registry is absent or unparsable, or no record has
\* the token as id or name, _find_port_by_target returns None, and every
\* construction of a client with that target raises ValueError.
C11_TargetAlwaysRaises ==
    /\ (ResolveDone /\ NoMatch(fn_in.reg, fn_in.target)) => fn_out = PyNone
    /\ (ConnectDone /\ fn_in.target.t = "str" /\ NoMatch(fn_in.reg, fn_in.target.s)) =>
          fn_out.exc = "ValueError"

\* C11, amended: when the registry is absent or unparsable, or no record has
\* the token as id or name, _find_port_by_target returns None; constructing
\* a client with that token as a non-empty target and with neither a url nor
\* a non-zero port raises ValueError and sets no endpoint.  A url that is
\* given is taken as it is and a port that is given is taken as the local
\* port, the target not being looked up; with none of the three the
\* endpoint is the default port 8090.
C11_NotFoundRaises ==
    /\ (ResolveDone /\ NoMatch(fn_in.reg, fn_in.target)) => fn_out = PyNone
    /\ (ConnectDone /\ NoMatch(fn_in.reg, fn_in.target.s)) =>
          IF Truthy(fn_in.url) THEN fn_out = Ok(fn_in.url)
          ELSE IF Truthy(fn_in.port)
               THEN fn_out = Ok(PyStr("http://localhost:" \o IntStr(fn_in.port.n)))
          ELSE IF Truthy(fn_in.target)
               THEN /\ fn_out.exc = "ValueError"
                    /\ fn_out.val = PyNone
                    /\ fn_out.text = "Could not find Unity instance matching '"
                                        \o fn_in.target.s \o "' in registry."
          ELSE fn_out = Ok(PyStr("http://localhost:8090"))

\* a client was constructed with the target nope alone against a registry of
\* two records, neither of them nope, and the construction raised
C11_Witness ==
    /\ ConnectDone
    /\ Len(Records(fn_in.reg)) = 2
    /\ fn_in.target = PyStr("nope")
    /\ fn_in.port = PyNone /\ fn_in.url = PyNone
    /\ fn_out.exc = "ValueError"

=============================================================================
